---- MODULE Spec2Model ----
(***************************************************************************)
(* A model of python-gnupg's GPG class (src/src/gnupg.py): one operation   *)
(* call at a time, the child process it launches, the pump thread feeding  *)
(* the child's standard input and the collector draining standard output   *)
(* and the status channel into the Result.                                 *)
(*                                                                         *)
(* gnupg.py is the only file of the package at hand.  _meta.py             *)
(* (_open_subprocess, _collect_output, _handle_io), _util.py               *)
(* (_threaded_copy_data, _write_passphrase) and _parsers.py (_fix_unsafe,  *)
(* the Result classes) are modelled from the specification's sections 4.1  *)
(* to 4.7.                                                                 *)
(***************************************************************************)
EXTENDS Integers, Sequences, FiniteSets, TLC

VARIABLES
    op,          \* the operation being called, "none" before the call
    pc,          \* the caller: idle, launched, collecting, collected, returned, raised;
                 \* assembled; parsing, parsed
    child,       \* the child process: none, running, exited, reaped
    rc,          \* the child's exit code, -1 until it exits
    fds,         \* the parent's open descriptors of this Invocation
    pump,        \* the pump thread: none, running, done
    pumpLeft,    \* input tokens the pump has still to write
    writer,      \* whether the pump thread was handed to the collector
    pass,        \* the passphrase the caller gave: none, empty, secret
    sentPass,    \* whether the launch told the child to expect a passphrase
    stdinBuf,    \* the child's standard-input pipe
    stdinEOF,    \* the write side of the child's standard input is closed
    childRead,   \* what the child has read from its standard input, in order
    held,        \* tokens an echoing child has read and not yet written
    outBuf,      \* the standard-output pipe
    statBuf,     \* the status-channel pipe
    written,     \* every token the child wrote to standard output, in order
    emitted,     \* every status line the child emitted, in order
    dispatched,  \* every status line handed to the Result's handlers, in order
    result,      \* the Result object of the call
    nFinal,      \* how many times the Result was finalized
    retval,      \* what the call returned: none, Result, None, Text
    exc,         \* the exception the call raised, "none" if none
    args,        \* the argument list handed to _open_subprocess or _handle_io
    inserted,    \* the caller-supplied identifiers as they were put into args
    sanitized,   \* the values _fix_unsafe returned during the call
    ppChan,      \* where the passphrase was written: none, stdin, passfd
    env,         \* the environment variables the child is started with
    recv_keyids, \* the key ids recv_keys was called with
    childLines,  \* the lines a child gave, as handed to a Result's parser
    feed,        \* of these, the lines still to be dispatched to a handler
    parsed,      \* the fields of the Result the handlers have built
    pubring,     \* the fingerprints of the keys in the public keyring
    secring,     \* the fingerprints of the keys in the secret keyring
    pubkey1,     \* what the caller keeps of its last export of a public key
    seckey1,     \* what the caller keeps of its last export of a secret key
    key_data,    \* the key material of the last import_keys call
    key_input,   \* the keyrings named in the batch the last gen_key_input returned
    old_input,   \* the same for the batch returned before that one
    input,       \* the same for the batch the last gen_key was given
    kwargs,      \* the keyword arguments of the last gen_key_input
    out,         \* the batch text the last gen_key_input returned, by lines
    temp_keyring, \* GPG.temp_keyring
    temp_secring, \* GPG.temp_secring
    files        \* the keyring files that exist besides the default ones

vars == <<op, pc, child, rc, fds, pump, pumpLeft, writer, pass, sentPass, stdinBuf,
          stdinEOF, childRead, held, outBuf, statBuf, written, emitted,
          dispatched, result, nFinal, retval, exc, args, inserted, sanitized,
          ppChan, env, recv_keyids, childLines, feed, parsed, pubring, secring, pubkey1,
          seckey1, key_data, key_input, old_input, input, kwargs, out,
          temp_keyring, temp_secring, files>>

\* What only argument assembly writes.
argVars == <<args, inserted, sanitized, ppChan, env, recv_keyids>>

\* What only the parsing of a child's lines writes.
parseVars == <<childLines, feed, parsed>>

\* The keyrings and what the caller holds of them; the separate keyrings of
\* a batch.
keyVars == <<pubring, secring, pubkey1, seckey1, key_data>>
tempVars == <<key_input, old_input, input, kwargs, out, temp_keyring,
              temp_secring, files>>
ringVars == <<keyVars, tempVars>>

(***************************************************************************)
(* Bounds of the model.                                                    *)
(***************************************************************************)
PipeCap == 1
MaxInput == 2
MaxOut == 2
MaxStatus == 2

(***************************************************************************)
(* Program constants.                                                      *)
(***************************************************************************)
batch_limit == 25

valid_keywords == {"pub", "uid", "sec", "fpr", "sub"}

\* Operations routed through _handle_io.
HandleIoOps == {"import_keys", "recv_keys", "list_packets", "gen_key",
                "encrypt_file", "decrypt_file", "send_keys"}

\* Of these, the ones that take a passphrase.
PassphraseOps == {"encrypt_file", "decrypt_file"}

(***************************************************************************)
(* What the child may put on its channels.  A status line is modelled by   *)
(* its keyword, a line of a key listing by the sequence of its             *)
(* colon-separated fields (<<>> is an empty line, "tru" a record type      *)
(* list_keys does not know), any other output by one opaque token.         *)
(***************************************************************************)
StatusWords == {"GOODSIG", "FUTURE_KEYWORD_XYZ"}
KnownStatus == {"GOODSIG"}
EmptyLine == <<>>
ListWords == {<<"pub">>, <<"fpr">>, <<"tru">>, EmptyLine}
OutWords(o) == IF o = "list_keys" THEN ListWords ELSE {"d"}
ExitCodes == {0, 2}
Passphrases == {"none", "empty", "secret"}

(***************************************************************************)
(* The Result object.                                                      *)
(***************************************************************************)
NewResult ==
    [phase |-> "pending", data |-> <<>>, lines |-> <<>>, calls |-> <<>>, rc |-> -1]

\* The Result's status handler: a recognized keyword is recorded, any other
\* is ignored.
HandleStatus(r, kw) ==
    IF kw \in KnownStatus
    THEN [r EXCEPT !.lines = Append(@, kw), !.phase = "receiving"]
    ELSE r

\* The Result's data sink.
AppendData(r, tok) == [r EXCEPT !.data = Append(@, tok), !.phase = "receiving"]

\* The collector's finalization of the Result, with the reaped exit code.
Finalize(r, code) == [r EXCEPT !.phase = "finalized", !.rc = code]

(***************************************************************************)
(* list_keys: the loop over the lines of the collected output.             *)
(***************************************************************************)
\* L = line.strip().split(':'); keyword = L[0]
Keyword(line) == line[1]

\* A list_keys that hands every line to a handler.
DispatchesAnyKeyword(keyword) == TRUE

\* if keyword in valid_keywords
Dispatches(keyword) == keyword \in valid_keywords

RECURSIVE ListKeysLoop(_, _)
ListKeysLoop(lines, calls) ==
    IF lines = <<>> THEN calls
    ELSE IF Head(lines) = EmptyLine THEN calls
    ELSE ListKeysLoop(Tail(lines),
                      IF Dispatches(Keyword(Head(lines)))
                      THEN Append(calls, Head(lines))
                      ELSE calls)

(***************************************************************************)
(* Launching the child: _open_subprocess.                                  *)
(***************************************************************************)
AllFds == {"stdin", "stdout", "status"}

Launch(o, expectPass) ==
    /\ op' = o
    /\ child' = "running"
    /\ fds' = AllFds
    /\ sentPass' = expectPass

Idle == pc = "idle" /\ op = "none"

pipes == <<stdinBuf, stdinEOF, childRead, held, outBuf, statBuf, written, emitted>>
outcome == <<retval, exc>>

(***************************************************************************)
(* The operations, up to the point where output collection starts.         *)
(***************************************************************************)
\* GPG.__init__: the call of the base class's __init__ names
\* default_preference_list, which is neither a parameter nor a global, so
\* constructing a GPG raises NameError before the probe of the binary is
\* launched.
CallInit ==
    /\ Idle
    /\ op' = "__init__"
    /\ pc' = "raised"
    /\ exc' = "NameError"
    /\ UNCHANGED <<argVars, parseVars, ringVars>>
    /\ UNCHANGED <<child, rc, fds, pump, pumpLeft, writer, pass, sentPass, pipes,
                   dispatched, result, nFinal, retval>>

\* GPG.sign: a file or a string is signed, any other stream is not.
CallSign ==
    /\ Idle
    /\ \E kind \in {"file", "string", "stream"}, pp \in Passphrases, n \in 0..MaxInput :
         IF kind = "stream"
         THEN /\ op' = "sign"
              /\ pc' = "returned"
              /\ retval' = "None"
              /\ UNCHANGED <<child, fds, sentPass, pass, pumpLeft, exc>>
         ELSE /\ Launch("sign", pp # "none")
              /\ pass' = pp
              /\ pumpLeft' = n
              /\ pc' = "launched"
              /\ UNCHANGED outcome
    /\ UNCHANGED <<argVars, parseVars, ringVars>>
    /\ UNCHANGED <<rc, pump, writer, pipes, dispatched, result, nFinal>>

\* GPG._sign_file, the try block: the passphrase is written to the child's
\* standard input, then the pump thread is started.  When the child is gone
\* the write of the passphrase either raises IOError or fails quietly; an
\* IOError leaves no writer.
\* A _sign_file without the except clause.
OnSignIOErrorUncaught == "uncaught"

OnSignIOError == "caught"

SignFeed ==
    /\ pc = "launched" /\ op = "sign"
    /\ \E ioerror \in IF pass = "secret" /\ child # "running"
                       THEN BOOLEAN ELSE {FALSE} :
         IF ioerror
         THEN IF OnSignIOError # "caught"
              THEN /\ pc' = "raised"
                   /\ exc' = "IOError"
                   /\ UNCHANGED <<pump, writer, stdinBuf>>
              ELSE /\ pc' = "collecting"
                   /\ UNCHANGED <<pump, writer, stdinBuf, exc>>
         ELSE /\ stdinBuf' = IF pass = "secret" /\ child = "running"
                             THEN Append(stdinBuf, "pp") ELSE stdinBuf
              /\ pump' = "running"
              /\ writer' = TRUE
              /\ pc' = "collecting"
              /\ UNCHANGED exc
    /\ UNCHANGED <<argVars, parseVars, ringVars>>
    /\ UNCHANGED <<op, child, rc, fds, pumpLeft, pass, sentPass, stdinEOF, childRead,
                   held, outBuf, statBuf, written, emitted, dispatched, result,
                   nFinal, retval>>

\* How verify_file feeds the child: the copy runs on a thread of its own.
\* A verify_file that copies the whole input before it collects any output.
InlineCopy == FALSE

ThreadedCopy == TRUE

\* GPG.verify_file(file, sig_file) on a file of n tokens: embedded signature
\* (sig_file None), detached signature, or a sig_file that is no file.
VerifyFile(sig, n) ==
    /\ Idle
    /\ op' = "verify_file"
    /\ IF sig = "notfile"
       THEN /\ pc' = "returned"
            /\ retval' = "Result"
            /\ UNCHANGED <<child, fds, sentPass, pump, pumpLeft, writer>>
       ELSE /\ child' = "running"
            /\ fds' = AllFds
            /\ sentPass' = FALSE
            /\ pump' = "running"
            /\ pumpLeft' = n
            /\ writer' = (sig = "none")
            /\ pc' = "collecting"
            /\ UNCHANGED retval
    /\ UNCHANGED <<argVars, parseVars, ringVars>>
    /\ UNCHANGED <<rc, pass, pipes, dispatched, result, nFinal, exc>>

CallVerifyFile ==
    \E sig \in {"none", "notfile", "file"}, n \in 0..MaxInput : VerifyFile(sig, n)

\* _handle_io: launch, pump thread, collection with the pump handed over.
CallHandleIo ==
    /\ Idle
    /\ \E o \in HandleIoOps, n \in 0..MaxInput,
          pp \in {"none", "secret"} :
         /\ (pp # "none") => o \in PassphraseOps
         /\ Launch(o, pp # "none")
         /\ pass' = pp
         /\ pumpLeft' = n
    /\ pump' = "running"
    /\ writer' = TRUE
    /\ pc' = "collecting"
    /\ UNCHANGED <<argVars, parseVars, ringVars>>
    /\ UNCHANGED <<rc, pipes, dispatched, result, nFinal, outcome>>

\* delete_keys, export_keys, list_keys: launch, then collection, no input.
CallNoInput ==
    /\ Idle
    /\ \E o \in {"delete_keys", "export_keys", "list_keys"} : Launch(o, FALSE)
    /\ pc' = "collecting"
    /\ UNCHANGED <<argVars, parseVars, ringVars>>
    /\ UNCHANGED <<rc, pump, pumpLeft, writer, pass, pipes, dispatched, result,
                   nFinal, outcome>>

\* list_sigs: too many keyids raise ValueError before the launch; otherwise
\* the child is launched and the call of the collector names p, which is not
\* defined.
CallListSigs ==
    /\ Idle
    /\ \E nkeys \in {0, 1, batch_limit, batch_limit + 1} :
         IF nkeys > batch_limit
         THEN /\ op' = "list_sigs"
              /\ exc' = "ValueError"
              /\ UNCHANGED <<child, fds, sentPass>>
         ELSE /\ Launch("list_sigs", FALSE)
              /\ exc' = "NameError"
    /\ pc' = "raised"
    /\ UNCHANGED <<argVars, parseVars, ringVars>>
    /\ UNCHANGED <<rc, pump, pumpLeft, writer, pass, pipes, dispatched, result,
                   nFinal, retval>>

(***************************************************************************)
(* The pump thread: _threaded_copy_data.                                   *)
(***************************************************************************)
\* One token goes into the child's standard input; the write blocks while
\* the pipe is full.
PumpWrite ==
    /\ pump = "running" /\ pumpLeft > 0
    /\ child = "running"
    /\ Len(stdinBuf) < PipeCap
    /\ stdinBuf' = Append(stdinBuf, "d")
    /\ pumpLeft' = pumpLeft - 1
    /\ UNCHANGED <<argVars, parseVars, ringVars>>
    /\ UNCHANGED <<op, pc, child, rc, fds, pump, writer, pass, sentPass, stdinEOF,
                   childRead, held, outBuf, statBuf, written, emitted, dispatched,
                   result, nFinal, outcome>>

\* All input is written: the pump closes the input side and ends.
PumpClose ==
    /\ pump = "running" /\ pumpLeft = 0
    /\ child = "running"
    /\ stdinEOF' = TRUE
    /\ pump' = "done"
    /\ UNCHANGED <<argVars, parseVars, ringVars>>
    /\ UNCHANGED <<op, pc, child, rc, fds, pumpLeft, writer, pass, sentPass, stdinBuf,
                   childRead, held, outBuf, statBuf, written, emitted, dispatched,
                   result, nFinal, outcome>>

\* The child is gone: the pump finds the pipe closed and ends, raising
\* nothing.
PumpBrokenPipe ==
    /\ pump = "running"
    /\ child # "running"
    /\ pump' = "done"
    /\ UNCHANGED <<argVars, parseVars, ringVars>>
    /\ UNCHANGED <<op, pc, child, rc, fds, pumpLeft, writer, pass, sentPass, stdinBuf,
                   stdinEOF, childRead, held, outBuf, statBuf, written, emitted,
                   dispatched, result, nFinal, outcome>>

(***************************************************************************)
(* The child process: it reads its input, emits status lines, writes       *)
(* output, and exits when it chooses to.                                   *)
(***************************************************************************)
ChildRead ==
    /\ child = "running"
    /\ stdinBuf # <<>>
    /\ childRead' = Append(childRead, Head(stdinBuf))
    /\ stdinBuf' = Tail(stdinBuf)
    /\ UNCHANGED <<argVars, parseVars, ringVars>>
    /\ UNCHANGED <<op, pc, child, rc, fds, pump, pumpLeft, writer, pass, sentPass,
                   stdinEOF, held, outBuf, statBuf, written, emitted, dispatched,
                   result, nFinal, outcome>>

ChildEmit ==
    /\ child = "running"
    /\ Len(emitted) < MaxStatus
    /\ Len(statBuf) < PipeCap
    /\ \E kw \in StatusWords :
         /\ statBuf' = Append(statBuf, kw)
         /\ emitted' = Append(emitted, kw)
    /\ UNCHANGED <<argVars, parseVars, ringVars>>
    /\ UNCHANGED <<op, pc, child, rc, fds, pump, pumpLeft, writer, pass, sentPass,
                   stdinBuf, stdinEOF, childRead, held, outBuf, written, dispatched,
                   result, nFinal, outcome>>

ChildWrite ==
    /\ child = "running"
    /\ Len(written) < MaxOut
    /\ Len(outBuf) < PipeCap
    /\ \E tok \in OutWords(op) :
         /\ outBuf' = Append(outBuf, tok)
         /\ written' = Append(written, tok)
    /\ UNCHANGED <<argVars, parseVars, ringVars>>
    /\ UNCHANGED <<op, pc, child, rc, fds, pump, pumpLeft, writer, pass, sentPass,
                   stdinBuf, stdinEOF, childRead, held, statBuf, emitted, dispatched,
                   result, nFinal, outcome>>

ChildExit ==
    /\ child = "running"
    /\ \E code \in ExitCodes : rc' = code
    /\ child' = "exited"
    /\ UNCHANGED <<argVars, parseVars, ringVars>>
    /\ UNCHANGED <<op, pc, fds, pump, pumpLeft, writer, pass, sentPass, pipes,
                   dispatched, result, nFinal, outcome>>

(***************************************************************************)
(* The output collector: _collect_output.                                  *)
(***************************************************************************)
\* The collector drains output while the copy runs on its own thread, and
\* only after the copy when it does not.
CollectorRuns ==
    /\ pc = "collecting"
    /\ ThreadedCopy \/ pump # "running"

ReadData ==
    /\ CollectorRuns
    /\ outBuf # <<>>
    /\ result' = AppendData(result, Head(outBuf))
    /\ outBuf' = Tail(outBuf)
    /\ UNCHANGED <<argVars, parseVars, ringVars>>
    /\ UNCHANGED <<op, pc, child, rc, fds, pump, pumpLeft, writer, pass, sentPass,
                   stdinBuf, stdinEOF, childRead, held, statBuf, written, emitted,
                   dispatched, nFinal, outcome>>

ReadStatus ==
    /\ CollectorRuns
    /\ statBuf # <<>>
    /\ result' = HandleStatus(result, Head(statBuf))
    /\ dispatched' = Append(dispatched, Head(statBuf))
    /\ statBuf' = Tail(statBuf)
    /\ UNCHANGED <<argVars, parseVars, ringVars>>
    /\ UNCHANGED <<op, pc, child, rc, fds, pump, pumpLeft, writer, pass, sentPass,
                   stdinBuf, stdinEOF, childRead, held, outBuf, written, emitted,
                   nFinal, outcome>>

\* Both streams are at end-of-stream and the child has exited: the pump
\* handed over is joined, the child is reaped, the descriptors are closed
\* and the Result is final.
CollectorFinish ==
    /\ CollectorRuns
    /\ child = "exited"
    /\ outBuf = <<>> /\ statBuf = <<>>
    /\ writer => pump = "done"
    /\ child' = "reaped"
    /\ fds' = {}
    /\ result' = Finalize(result, rc)
    /\ nFinal' = nFinal + 1
    /\ pc' = "collected"
    /\ UNCHANGED <<argVars, parseVars, ringVars>>
    /\ UNCHANGED <<op, rc, pump, pumpLeft, writer, pass, sentPass, pipes, dispatched,
                   outcome>>

(***************************************************************************)
(* The operations, after output collection.                                *)
(***************************************************************************)
\* An export_keys that stores the decoded text back into the Result.
ReturnExportKeysStoresText ==
    /\ pc = "collected" /\ op = "export_keys"
    /\ pc' = "returned"
    /\ retval' = "Text"
    /\ result' = [result EXCEPT !.data = <<"text">>]
    /\ UNCHANGED <<argVars, parseVars, ringVars>>
    /\ UNCHANGED <<op, child, rc, fds, pump, pumpLeft, writer, pass, sentPass, pipes,
                   dispatched, nFinal, exc>>

\* export_keys: the collected data, decoded, is what the caller gets.
ReturnExportKeys ==
    /\ pc = "collected" /\ op = "export_keys"
    /\ pc' = "returned"
    /\ retval' = "Text"
    /\ UNCHANGED <<argVars, parseVars, ringVars>>
    /\ UNCHANGED <<op, child, rc, fds, pump, pumpLeft, writer, pass, sentPass, pipes,
                   dispatched, result, nFinal, exc>>

\* list_keys: the collected data is split into lines and each line with a
\* valid keyword is handed to the Result's handler of that name.
ReturnListKeys ==
    /\ pc = "collected" /\ op = "list_keys"
    /\ result' = [result EXCEPT !.calls = ListKeysLoop(result.data, @)]
    /\ pc' = "returned"
    /\ retval' = "Result"
    /\ UNCHANGED <<argVars, parseVars, ringVars>>
    /\ UNCHANGED <<op, child, rc, fds, pump, pumpLeft, writer, pass, sentPass, pipes,
                   dispatched, nFinal, exc>>

\* Every other operation returns the Result as the collector left it.
ReturnResult ==
    /\ pc = "collected"
    /\ op \notin {"export_keys", "list_keys"}
    /\ pc' = "returned"
    /\ retval' = "Result"
    /\ UNCHANGED <<argVars, parseVars, ringVars>>
    /\ UNCHANGED <<op, child, rc, fds, pump, pumpLeft, writer, pass, sentPass, pipes,
                   dispatched, result, nFinal, exc>>

(***************************************************************************)
(* The specification: one call, from entry to return.  The methods are     *)
(* modelled as called on a GPG object, each from its own code; CallInit is *)
(* the call that constructs one.                                           *)
(***************************************************************************)
Init ==
    /\ op = "none"
    /\ pc = "idle"
    /\ child = "none"
    /\ rc = -1
    /\ fds = {}
    /\ pump = "none"
    /\ pumpLeft = 0
    /\ writer = FALSE
    /\ pass = "none"
    /\ sentPass = FALSE
    /\ stdinBuf = <<>>
    /\ stdinEOF = FALSE
    /\ childRead = <<>>
    /\ held = 0
    /\ outBuf = <<>>
    /\ statBuf = <<>>
    /\ written = <<>>
    /\ emitted = <<>>
    /\ dispatched = <<>>
    /\ result = NewResult
    /\ nFinal = 0
    /\ retval = "none"
    /\ exc = "none"
    /\ args = <<>>
    /\ inserted = <<>>
    /\ sanitized = {}
    /\ ppChan = "none"
    /\ env = {}
    /\ recv_keyids = <<>>
    /\ childLines = <<>>
    /\ feed = <<>>
    /\ parsed = <<>>
    /\ pubring = {}
    /\ secring = {}
    /\ pubkey1 = [keyid |-> "none", data |-> <<>>, present |-> FALSE]
    /\ seckey1 = [keyid |-> "none", data |-> <<>>, present |-> FALSE]
    /\ key_data = <<>>
    /\ key_input = [pubring |-> <<"none">>, secring |-> <<"none">>]
    /\ old_input = [pubring |-> <<"none">>, secring |-> <<"none">>]
    /\ input = [pubring |-> <<"none">>, secring |-> <<"none">>]
    /\ kwargs = [k \in {"key_type", "key_usage", "subkey_type", "subkey_usage"}
                  |-> "absent"]
    /\ out = <<>>
    /\ temp_keyring = <<"None">>
    /\ temp_secring = <<"None">>
    /\ files = {}

Next ==
    \/ CallInit
    \/ CallSign
    \/ SignFeed
    \/ CallVerifyFile
    \/ CallHandleIo
    \/ CallNoInput
    \/ CallListSigs
    \/ PumpWrite
    \/ PumpClose
    \/ PumpBrokenPipe
    \/ ChildRead
    \/ ChildEmit
    \/ ChildWrite
    \/ ChildExit
    \/ ReadData
    \/ ReadStatus
    \/ CollectorFinish
    \/ ReturnExportKeys
    \/ ReturnListKeys
    \/ ReturnResult

Spec == Init /\ [][Next]_vars

(***************************************************************************)
(* The echo scenario: verify_file on an input larger than the pipes, and a *)
(* child that copies every token of its input to its standard output,      *)
(* reports on the status channel and exits at the end of its input.        *)
(***************************************************************************)
EchoInputs == (PipeCap + 1)..(2 * PipeCap + MaxInput)

CallVerifyEcho == \E n \in EchoInputs : VerifyFile("none", n)

EchoRead ==
    /\ child = "running"
    /\ held = 0
    /\ stdinBuf # <<>>
    /\ held' = 1
    /\ childRead' = Append(childRead, Head(stdinBuf))
    /\ stdinBuf' = Tail(stdinBuf)
    /\ UNCHANGED <<argVars, parseVars, ringVars>>
    /\ UNCHANGED <<op, pc, child, rc, fds, pump, pumpLeft, writer, pass, sentPass,
                   stdinEOF, outBuf, statBuf, written, emitted, dispatched,
                   result, nFinal, outcome>>

EchoWrite ==
    /\ child = "running"
    /\ held > 0
    /\ Len(outBuf) < PipeCap
    /\ held' = 0
    /\ outBuf' = Append(outBuf, "d")
    /\ written' = Append(written, "d")
    /\ UNCHANGED <<argVars, parseVars, ringVars>>
    /\ UNCHANGED <<op, pc, child, rc, fds, pump, pumpLeft, writer, pass, sentPass,
                   stdinBuf, stdinEOF, childRead, statBuf, emitted, dispatched,
                   result, nFinal, outcome>>

EchoExit ==
    /\ child = "running"
    /\ stdinEOF /\ stdinBuf = <<>> /\ held = 0
    /\ child' = "exited"
    /\ rc' = 0
    /\ UNCHANGED <<argVars, parseVars, ringVars>>
    /\ UNCHANGED <<op, pc, fds, pump, pumpLeft, writer, pass, sentPass, pipes,
                   dispatched, result, nFinal, outcome>>

EchoNext ==
    \/ CallVerifyEcho
    \/ PumpWrite
    \/ PumpClose
    \/ EchoRead
    \/ EchoWrite
    \/ ChildEmit
    \/ EchoExit
    \/ ReadData
    \/ ReadStatus
    \/ CollectorFinish
    \/ ReturnResult

\* The pump thread, the child and the caller's thread are each scheduled
\* fairly; the child is not obliged to emit status lines.
EchoSpec ==
    /\ Init
    /\ [][EchoNext]_vars
    /\ WF_vars(PumpWrite)
    /\ WF_vars(PumpClose)
    /\ WF_vars(EchoRead)
    /\ WF_vars(EchoWrite)
    /\ WF_vars(EchoExit)
    /\ WF_vars(ReadData)
    /\ WF_vars(ReadStatus)
    /\ WF_vars(CollectorFinish)
    /\ WF_vars(ReturnResult)

(***************************************************************************)
(* Argument assembly.  A Python string is a sequence of atoms: an atom is  *)
(* one character of a caller-supplied value, or a piece of literal text of *)
(* the program.  "S" is the one character passphrases are made of, ";" a   *)
(* shell metacharacter.                                                    *)
(***************************************************************************)
MaxIds == 2

MetaChars == {";"}
Idents == {<<"A">>, <<"A", "B">>, <<";">>, <<"A", ";">>}
NoKey == <<>>
IdLists == UNION {[1..k -> Idents] : k \in 0..MaxIds}

PassWord(pp) == IF pp = "secret" THEN <<"S">> ELSE <<>>

Lit(text) == <<text>>

\* "<text> %s" % w
Fmt(text, w) == <<text, " ">> \o w

\* ' '.join(ws)
RECURSIVE Join(_)
Join(ws) ==
    IF ws = <<>> THEN <<>>
    ELSE IF Len(ws) = 1 THEN ws[1]
    ELSE ws[1] \o <<" ">> \o Join(Tail(ws))

\* list.extend(w) with w a string: one list element per character.
CharsOf(w) == [i \in DOMAIN w |-> <<w[i]>>]

\* The sanitizer, _fix_unsafe: a token with a shell metacharacter is
\* rejected, any other is returned unchanged.
Unsafe(w) == \E i \in DOMAIN w : w[i] \in MetaChars
Rejected == <<"UnsafeInputError">>
FixUnsafe(w) == IF Unsafe(w) THEN Rejected ELSE w

\* The launcher's environment for the child: a fixed allow-list.
LaunchEnv == {<<"LANG=C">>}

\* Where _handle_io writes a passphrase it is given.
HandleIoPassphraseChannel(pp) == IF pp = "none" THEN "none" ELSE "passfd"

\* recv_keys
RecvKeysArgs(keyserver, keyids) ==
    <<Lit("--keyserver"), keyserver, Lit("--recv-keys")>>
      \o (IF keyids # <<>>
          THEN CharsOf(Join([i \in DOMAIN keyids |-> FixUnsafe(keyids[i])]))
          ELSE <<>>)

\* send_keys
SendKeysArgs(keyserver, keyids) ==
    <<Lit("--keyserver"), keyserver, Lit("--send-keys")>> \o keyids

\* A deletion that takes no notice of secret.
DeleteKeysArgsPublicOnly(fingerprints, secret, subkeys) ==
    LET which == IF subkeys THEN "secret-and-public-key" ELSE "keys"
    IN <<Lit("--batch"), <<"--delete-", which, " ">> \o fingerprints>>

\* delete_keys; fingerprints is the string given, or the list joined.
DeleteKeysArgs(fingerprints, secret, subkeys) ==
    LET which == IF subkeys THEN "secret-and-public-key"
                 ELSE IF secret THEN "secret-key" ELSE "keys"
    IN <<Lit("--batch"), <<"--delete-", which, " ">> \o fingerprints>>

\* An export that takes no notice of secret.
ExportKeysArgsPublicOnly(keyids, secret, subkeys) ==
    <<Lit("--armor"), <<"--export", "", " ">> \o keyids>>

\* export_keys
ExportKeysArgs(keyids, secret, subkeys) ==
    LET which == IF subkeys THEN "-secret-subkeys"
                 ELSE IF secret THEN "-secret-keys" ELSE ""
    IN <<Lit("--armor"), <<"--export", which, " ">> \o keyids>>

\* list_sigs
ListSigsArgs(keyids) ==
    <<Lit("--with-colons"), Lit("--fixed-list-mode"), Lit("--list-sigs")>> \o keyids

\* A _sign_file that passes the passphrase as an option.
SignFileArgsWithPassphrase(default_key, passphrase, clearsign, detach, binary) ==
    (IF binary THEN <<Lit("--sign")>> ELSE <<Lit("--sign --armor")>>)
      \o (IF clearsign THEN <<Lit("--clearsign")>>
          ELSE IF detach THEN <<Lit("--detach-sign")>> ELSE <<>>)
      \o (IF default_key # NoKey THEN <<Fmt("--default-key", default_key)>> ELSE <<>>)
      \o (IF passphrase = "secret"
          THEN <<Fmt("--passphrase", PassWord(passphrase))>> ELSE <<>>)

\* _sign_file
SignFileArgs(default_key, passphrase, clearsign, detach, binary) ==
    (IF binary THEN <<Lit("--sign")>> ELSE <<Lit("--sign --armor")>>)
      \o (IF clearsign THEN <<Lit("--clearsign")>>
          ELSE IF detach THEN <<Lit("--detach-sign")>> ELSE <<>>)
      \o (IF default_key # NoKey THEN <<Fmt("--default-key", default_key)>> ELSE <<>>)

\* encrypt_file, with armor, always_trust, encrypt and the three algorithms
\* at their defaults and no output file.
EncryptFileArgs(recipients, default_key, passphrase, symmetric) ==
    <<Lit("--armor"), Lit("--always-trust"), Lit("--cipher-algo AES256"),
      Lit("--compress-algo ZLIB")>>
      \o (IF default_key # NoKey
          THEN <<Lit("--sign"), Fmt("--default-key", default_key),
                 Lit("--digest-algo SHA512")>>
          ELSE <<>>)
      \o (IF symmetric THEN <<Lit("--symmetric")>> ELSE <<>>)
      \o <<Lit("--encrypt")>>
      \o [i \in DOMAIN recipients |-> Fmt("--recipient", recipients[i])]

\* decrypt_file
DecryptFileArgs(always_trust, passphrase, output) ==
    <<Lit("--decrypt")>>
      \o (IF output # NoKey THEN <<Fmt("--output", output)>> ELSE <<>>)
      \o (IF always_trust THEN <<Lit("--always-trust")>> ELSE <<>>)

\* The call reached _open_subprocess or _handle_io with these arguments.
Assembled(o, a, ids, clean, chan, expectPass, pp) ==
    /\ op' = o
    /\ pc' = "assembled"
    /\ args' = a
    /\ inserted' = ids
    /\ sanitized' = clean
    /\ ppChan' = chan
    /\ sentPass' = expectPass
    /\ pass' = pp
    /\ env' = LaunchEnv
    /\ exc' = "none"

\* The call raised before any child was launched.
Refused(o, e) ==
    /\ op' = o
    /\ pc' = "raised"
    /\ exc' = e
    /\ UNCHANGED <<args, inserted, sanitized, ppChan, sentPass, pass, env>>

engineVars == <<child, rc, fds, pump, pumpLeft, writer, pipes, dispatched, result,
                nFinal, retval>>

ArgRecvKeys ==
    /\ Idle
    /\ \E keyserver \in Idents, keyids \in IdLists :
         /\ IF Unsafe(keyserver) \/ \E i \in DOMAIN keyids : Unsafe(keyids[i])
            THEN Refused("recv_keys", "UnsafeInputError")
            ELSE Assembled("recv_keys", RecvKeysArgs(keyserver, keyids),
                        <<keyserver>> \o (IF keyids # <<>>
                                          THEN CharsOf(Join(keyids)) ELSE <<>>),
                        {FixUnsafe(keyserver)}
                          \cup {FixUnsafe(keyids[i]) : i \in DOMAIN keyids},
                        "none", FALSE, "none")
         /\ recv_keyids' = keyids
    /\ UNCHANGED <<engineVars, parseVars, ringVars>>

ArgSendKeys ==
    /\ Idle
    /\ \E keyserver \in Idents, keyids \in IdLists :
         Assembled("send_keys", SendKeysArgs(keyserver, keyids),
                   <<keyserver>> \o keyids, {}, "none", FALSE, "none")
    /\ UNCHANGED <<engineVars, parseVars, ringVars, recv_keyids>>

ArgDeleteKeys ==
    /\ Idle
    /\ \E fps \in IdLists, secret \in BOOLEAN, subkeys \in BOOLEAN :
         /\ fps # <<>>
         /\ Assembled("delete_keys", DeleteKeysArgs(Join(fps), secret, subkeys),
                      fps, {}, "none", FALSE, "none")
    /\ UNCHANGED <<engineVars, parseVars, ringVars, recv_keyids>>

ArgExportKeys ==
    /\ Idle
    /\ \E keyids \in IdLists, secret \in BOOLEAN, subkeys \in BOOLEAN :
         /\ keyids # <<>>
         /\ Assembled("export_keys", ExportKeysArgs(Join(keyids), secret, subkeys),
                      keyids, {}, "none", FALSE, "none")
    /\ UNCHANGED <<engineVars, parseVars, ringVars, recv_keyids>>

ArgListSigs ==
    /\ Idle
    /\ \E keyids \in IdLists :
         IF Len(keyids) > batch_limit
         THEN Refused("list_sigs", "ValueError")
         ELSE Assembled("list_sigs", ListSigsArgs(keyids), keyids, {}, "none",
                        FALSE, "none")
    /\ UNCHANGED <<engineVars, parseVars, ringVars, recv_keyids>>

\* _sign_file, as far as the passphrase: it goes to proc.stdin.
ArgSignFile ==
    /\ Idle
    /\ \E default_key \in Idents \cup {NoKey}, pp \in Passphrases,
          clearsign \in BOOLEAN, detach \in BOOLEAN, binary \in BOOLEAN :
         Assembled("sign",
                   SignFileArgs(default_key, pp, clearsign, detach, binary),
                   IF default_key # NoKey THEN <<default_key>> ELSE <<>>, {},
                   IF pp = "secret" THEN "stdin" ELSE "none",
                   pp # "none", pp)
    /\ UNCHANGED <<engineVars, parseVars, ringVars, recv_keyids>>

\* encrypt_file; recipients given as one string are never looked at: the
\* test of their type names recp before the loop binds it.
ArgEncryptFile ==
    /\ Idle
    /\ \E recipients \in IdLists, asString \in BOOLEAN,
          default_key \in Idents \cup {NoKey}, pp \in Passphrases,
          symmetric \in BOOLEAN :
         IF asString /\ recipients # <<>>
         THEN Refused("encrypt_file", "UnboundLocalError")
         ELSE /\ Assembled("encrypt_file",
                           EncryptFileArgs(recipients, default_key, pp, symmetric),
                           (IF default_key # NoKey THEN <<default_key>> ELSE <<>>)
                             \o recipients,
                           {}, HandleIoPassphraseChannel(pp), pp # "none", pp)
    /\ UNCHANGED <<engineVars, parseVars, ringVars, recv_keyids>>

ArgDecryptFile ==
    /\ Idle
    /\ \E always_trust \in BOOLEAN, pp \in Passphrases, output \in Idents \cup {NoKey} :
         Assembled("decrypt_file", DecryptFileArgs(always_trust, pp, output),
                   IF output # NoKey THEN <<output>> ELSE <<>>, {},
                   HandleIoPassphraseChannel(pp), pp # "none", pp)
    /\ UNCHANGED <<engineVars, parseVars, ringVars, recv_keyids>>

ArgNext ==
    \/ ArgRecvKeys
    \/ ArgSendKeys
    \/ ArgDeleteKeys
    \/ ArgExportKeys
    \/ ArgListSigs
    \/ ArgSignFile
    \/ ArgEncryptFile
    \/ ArgDecryptFile

ArgSpec == Init /\ [][ArgNext]_vars

(***************************************************************************)
(* The Results' parsers.  A call has collected the lines its child gave;   *)
(* they are handed one by one to the handlers of the call's Result.  A     *)
(* line is the sequence of its fields, the keyword first.                  *)
(***************************************************************************)
MaxLines == 3

\* self._result_map[...]: the Result variant an operation creates.
VariantOf(o) ==
    CASE o \in {"list_keys", "list_sigs", "send_keys", "__init__"} -> "list"
      [] o = "verify_file" -> "verify"
      [] o \in {"import_keys", "recv_keys"} -> "import"
      [] o \in {"delete_keys", "export_keys"} -> "delete"
      [] o \in {"encrypt_file", "decrypt_file"} -> "crypt"
      [] o = "gen_key" -> "generate"
      [] o = "sign" -> "sign"
      [] o = "list_packets" -> "packets"

SeqsUpTo(S, n) == UNION {[1..k -> S] : k \in 0..n}

\* The ListResult: an ordered sequence of key records and the record that
\* was opened last.
Ids == {"1", "2"}
NoFpr == "none"
OpenerWords == {"pub", "sec", "sub"}
ListLines ==
    {<<kw, id>> : kw \in valid_keywords, id \in Ids}
      \cup {<<"fpr">>, <<"tru", "1">>, EmptyLine}

NewListResult == [keys |-> <<>>, cur |-> "none"]

NewKey(kw, id) == [type |-> kw, id |-> id, fpr |-> NoFpr, uids |-> <<>>, subs |-> <<>>]

\* A keyword's handler wants the fields of its record; a line that is short
\* of them is ignored.
ListWellFormed(L) == Len(L) >= 2 /\ L[1] \in valid_keywords

\* A handler of fpr that always writes to the key record.
ListHandleFprToKey(r, L) ==
    LET n == Len(r.keys)
    IN IF ~ListWellFormed(L) THEN r
       ELSE CASE L[1] \in {"pub", "sec"} ->
                   [keys |-> Append(r.keys, NewKey(L[1], L[2])), cur |-> "key"]
              [] L[1] = "sub" ->
                   IF n = 0 THEN r
                   ELSE [keys |-> [r.keys EXCEPT ![n].subs =
                                     Append(@, [id |-> L[2], fpr |-> NoFpr])],
                         cur |-> "sub"]
              [] L[1] = "uid" ->
                   IF n = 0 THEN r
                   ELSE [r EXCEPT !.keys[n].uids = Append(@, L[2])]
              [] L[1] = "fpr" ->
                   IF n = 0 THEN r ELSE [r EXCEPT !.keys[n].fpr = L[2]]

ListHandle(r, L) ==
    LET n == Len(r.keys)
    IN IF ~ListWellFormed(L) THEN r
       ELSE CASE L[1] \in {"pub", "sec"} ->
                   [keys |-> Append(r.keys, NewKey(L[1], L[2])), cur |-> "key"]
              [] L[1] = "sub" ->
                   IF n = 0 THEN r
                   ELSE [keys |-> [r.keys EXCEPT ![n].subs =
                                     Append(@, [id |-> L[2], fpr |-> NoFpr])],
                         cur |-> "sub"]
              [] L[1] = "uid" ->
                   IF n = 0 THEN r
                   ELSE [r EXCEPT !.keys[n].uids = Append(@, L[2])]
              [] L[1] = "fpr" ->
                   IF r.cur = "key" THEN [r EXCEPT !.keys[n].fpr = L[2]]
                   ELSE IF r.cur = "sub"
                        THEN [r EXCEPT !.keys[n].subs[Len(r.keys[n].subs)].fpr = L[2]]
                        ELSE r

\* ListResult.fingerprints
Fingerprints(r) == {r.keys[i].fpr : i \in DOMAIN r.keys} \ {NoFpr}

\* The VerifyResult.  A signature line sets the verification status and the
\* signer; of several the last one wins.  ERRSIG names no verified signer.
SigWords == {"GOODSIG", "BADSIG", "EXPSIG", "EXPKEYSIG", "REVKEYSIG", "ERRSIG"}
GoodSigClass == {"GOODSIG"}
GenericFailWords == {"ERROR", "FAILURE", "INV_RECP", "NO_RECP"}
VerifyLines ==
    {<<kw, id>> : kw \in SigWords, id \in Ids}
      \cup {<<"ERROR", "1">>, <<"NODATA", "1">>, <<"FUTURE_KEYWORD_XYZ", "1">>,
            <<"GOODSIG">>}

NewVerifyResult ==
    [status |-> "none", valid |-> FALSE, fingerprint |-> NoFpr, errors |-> <<>>]

VerifyWellFormed(L) == Len(L) >= 2 /\ L[1] \in SigWords \cup GenericFailWords

\* A handler in which the first signature line wins.
VerifyHandleFirstWins(r, L) ==
    IF ~VerifyWellFormed(L) THEN r
    ELSE IF L[1] \in SigWords
         THEN IF r.status # "none" THEN r
              ELSE [r EXCEPT !.status = L[1],
                             !.valid = (L[1] \in GoodSigClass),
                             !.fingerprint = IF L[1] = "ERRSIG" THEN NoFpr ELSE L[2]]
         ELSE [r EXCEPT !.valid = FALSE, !.errors = Append(@, L[1])]

VerifyHandle(r, L) ==
    IF ~VerifyWellFormed(L) THEN r
    ELSE IF L[1] \in SigWords
         THEN [r EXCEPT !.status = L[1],
                        !.valid = (L[1] \in GoodSigClass),
                        !.fingerprint = IF L[1] = "ERRSIG" THEN NoFpr ELSE L[2]]
         ELSE [r EXCEPT !.valid = FALSE, !.errors = Append(@, L[1])]

\* The CryptResult, as decryption drives it.
CryptWords == {"NEED_PASSPHRASE", "GOOD_PASSPHRASE", "BAD_PASSPHRASE",
               "DECRYPTION_OKAY", "DECRYPTION_FAILED"}
CryptLines ==
    {<<kw>> : kw \in CryptWords} \cup {<<"ERROR", "1">>, <<"FUTURE_KEYWORD_XYZ", "1">>}

CryptStatus(kw) ==
    CASE kw = "NEED_PASSPHRASE" -> "need passphrase"
      [] kw = "GOOD_PASSPHRASE" -> "good passphrase"
      [] kw = "BAD_PASSPHRASE" -> "bad passphrase"
      [] kw = "DECRYPTION_OKAY" -> "decryption ok"
      [] kw = "DECRYPTION_FAILED" -> "decryption failed"

NewCryptResult == [status |-> "none", okay |-> FALSE, failed |-> FALSE]

CryptWellFormed(L) ==
    \/ Len(L) >= 1 /\ L[1] \in CryptWords
    \/ Len(L) >= 2 /\ L[1] \in GenericFailWords

\* A handler that does not record DECRYPTION_FAILED.
CryptHandleOkayOnly(r, L) ==
    IF ~CryptWellFormed(L) THEN r
    ELSE IF L[1] \in GenericFailWords THEN [r EXCEPT !.failed = TRUE]
    ELSE [r EXCEPT !.status = CryptStatus(L[1]),
                   !.okay = @ \/ L[1] = "DECRYPTION_OKAY"]

CryptHandle(r, L) ==
    IF ~CryptWellFormed(L) THEN r
    ELSE IF L[1] \in GenericFailWords THEN [r EXCEPT !.failed = TRUE]
    ELSE [r EXCEPT !.status = CryptStatus(L[1]),
                   !.okay = @ \/ L[1] = "DECRYPTION_OKAY",
                   !.failed = @ \/ L[1] = "DECRYPTION_FAILED"]

\* The ImportResult.  IMPORT_RES carries ten numeric fields in a fixed order.
ImportFields == <<"count", "no_user_id", "imported", "imported_rsa", "unchanged",
                  "sec_read", "sec_imported", "sec_dups", "not_imported",
                  "skipped_new">>
NFields == Len(ImportFields)
ImportExample == <<5, 0, 3, 0, 2, 0, 0, 0, 0, 0>>
ImportTuples == [1..NFields -> {0, 1}] \cup {ImportExample}
ImportPrelude ==
    {<<"IMPORT_OK", "1">>, <<"IMPORTED", "2">>, <<"FUTURE_KEYWORD_XYZ", "1">>,
     <<"IMPORT_RES", 1, 1, 1>>}

NewImportResult ==
    [counts |-> [f \in {ImportFields[i] : i \in 1..NFields} |-> 0], results |-> <<>>]

ImportWellFormed(L) ==
    \/ Len(L) = NFields + 1 /\ L[1] = "IMPORT_RES"
    \/ Len(L) >= 2 /\ L[1] \in {"IMPORT_OK", "IMPORTED"}

\* A handler that takes imported and unchanged from each other's position.
ImportHandleSwapped(r, L) ==
    IF ~ImportWellFormed(L) THEN r
    ELSE IF L[1] = "IMPORT_RES"
         THEN [r EXCEPT !.counts =
                 [f \in DOMAIN @ |->
                    CASE f = "imported" -> L[6]
                      [] f = "unchanged" -> L[4]
                      [] OTHER ->
                           L[1 + CHOOSE i \in 1..NFields : ImportFields[i] = f]]]
         ELSE [r EXCEPT !.results = Append(@, <<L[1], L[2]>>)]

ImportHandle(r, L) ==
    IF ~ImportWellFormed(L) THEN r
    ELSE IF L[1] = "IMPORT_RES"
         THEN [r EXCEPT !.counts =
                 [f \in DOMAIN @ |->
                    L[1 + CHOOSE i \in 1..NFields : ImportFields[i] = f]]]
         ELSE [r EXCEPT !.results = Append(@, <<L[1], L[2]>>)]

\* The GenKeyResult: the fingerprint of the new key, or none.
GenKeyLines ==
    {<<"KEY_CREATED", id>> : id \in Ids}
      \cup {<<"KEY_NOT_CREATED">>, <<"KEY_CREATED">>, <<"FUTURE_KEYWORD_XYZ", "1">>}

NewGenKeyResult == [fingerprint |-> NoFpr]

GenKeyWellFormed(L) ==
    \/ Len(L) >= 2 /\ L[1] = "KEY_CREATED"
    \/ Len(L) >= 1 /\ L[1] = "KEY_NOT_CREATED"

GenKeyHandle(r, L) ==
    IF ~GenKeyWellFormed(L) THEN r
    ELSE [r EXCEPT !.fingerprint = IF L[1] = "KEY_CREATED" THEN L[2] ELSE NoFpr]

\* The SignResult and the PacketListResult, before any line.
NewSignResult == [status |-> "none", fingerprint |-> NoFpr]
NewPacketsResult == [recipients |-> {}, symmetric |-> FALSE]

\* The variants whose lines are fed here.
Variants == {"list", "verify", "crypt", "import", "generate", "sign", "packets"}
FedVariants == {"list", "verify", "crypt", "import", "generate"}

New(v) ==
    CASE v = "list" -> NewListResult
      [] v = "verify" -> NewVerifyResult
      [] v = "crypt" -> NewCryptResult
      [] v = "import" -> NewImportResult
      [] v = "generate" -> NewGenKeyResult
      [] v = "sign" -> NewSignResult
      [] v = "packets" -> NewPacketsResult

WellFormed(v, L) ==
    CASE v = "list" -> ListWellFormed(L)
      [] v = "verify" -> VerifyWellFormed(L)
      [] v = "crypt" -> CryptWellFormed(L)
      [] v = "import" -> ImportWellFormed(L)
      [] v = "generate" -> GenKeyWellFormed(L)

Handle(v, r, L) ==
    CASE v = "list" -> ListHandle(r, L)
      [] v = "verify" -> VerifyHandle(r, L)
      [] v = "crypt" -> CryptHandle(r, L)
      [] v = "import" -> ImportHandle(r, L)
      [] v = "generate" -> GenKeyHandle(r, L)

\* A predicate that reads "no failure seen" as success.
SuccessUnlessFailed(v, r) ==
    CASE v = "list" -> r.keys # <<>>
      [] v = "verify" -> r.status \notin {"BADSIG", "ERRSIG"} /\ r.errors = <<>>
      [] v = "crypt" -> ~r.failed
      [] v = "import" -> r.counts["not_imported"] = 0
      [] v = "generate" -> r.fingerprint # NoFpr
      [] v = "sign" -> r.fingerprint # NoFpr
      [] v = "packets" -> r.recipients # {} \/ r.symmetric

\* success(): a function of the accumulated state alone.
Success(v, r) ==
    CASE v = "list" -> r.keys # <<>>
      [] v = "verify" -> r.valid
      [] v = "crypt" -> r.okay /\ ~r.failed
      [] v = "import" -> r.counts["count"] > 0 /\ r.counts["not_imported"] = 0
      [] v = "generate" -> r.fingerprint # NoFpr
      [] v = "sign" -> r.fingerprint # NoFpr
      [] v = "packets" -> r.recipients # {} \/ r.symmetric

\* The Result after the lines ls, from a new one.
RECURSIVE ParseFrom(_, _, _)
ParseFrom(v, r, ls) ==
    IF ls = <<>> THEN r ELSE ParseFrom(v, Handle(v, r, Head(ls)), Tail(ls))

Parse(v, ls) == ParseFrom(v, New(v), ls)

\* What a child may put on the status channel for an operation; an import
\* ends with at most one IMPORT_RES.
StatusSeqs(o) ==
    CASE o = "verify_file" -> SeqsUpTo(VerifyLines, MaxLines)
      [] o = "decrypt_file" -> SeqsUpTo(CryptLines, MaxLines)
      [] o = "gen_key" -> SeqsUpTo(GenKeyLines, MaxLines - 1)
      [] o = "import_keys" ->
           SeqsUpTo(ImportPrelude, MaxLines - 1)
             \cup {Append(pre, <<"IMPORT_RES">> \o t) :
                     pre \in SeqsUpTo(ImportPrelude, MaxLines - 2), t \in ImportTuples}

ParsedOps == {"verify_file", "decrypt_file", "gen_key", "import_keys"}

\* list_keys: the loop over the lines of the collected output chooses the
\* lines the handlers get.
ParseListKeys ==
    /\ Idle
    /\ \E ls \in SeqsUpTo(ListLines, MaxLines) :
         /\ childLines' = ls
         /\ feed' = ListKeysLoop(ls, <<>>)
    /\ op' = "list_keys"
    /\ pc' = "parsing"
    /\ parsed' = New(VariantOf("list_keys"))
    /\ UNCHANGED <<engineVars, argVars, ringVars, pass, sentPass, exc>>

\* The collector hands every status line to the Result.
ParseStatus ==
    /\ Idle
    /\ \E o \in ParsedOps :
         /\ op' = o
         /\ parsed' = New(VariantOf(o))
         /\ \E ls \in StatusSeqs(o) :
              /\ childLines' = ls
              /\ feed' = ls
    /\ pc' = "parsing"
    /\ UNCHANGED <<engineVars, argVars, ringVars, pass, sentPass, exc>>

HandleLine ==
    /\ pc = "parsing"
    /\ feed # <<>>
    /\ parsed' = Handle(VariantOf(op), parsed, Head(feed))
    /\ feed' = Tail(feed)
    /\ UNCHANGED <<engineVars, argVars, ringVars, op, pc, pass, sentPass, exc, childLines>>

\* Every line has been dispatched.
ParseDone ==
    /\ pc = "parsing"
    /\ feed = <<>>
    /\ pc' = "parsed"
    /\ UNCHANGED <<engineVars, argVars, ringVars, op, pass, sentPass, exc, parseVars>>

\* verify_file with a sig_file that is no file.
VerifyNoSigFile == \E n \in 0..MaxInput : VerifyFile("notfile", n)

ParseNext ==
    \/ ParseListKeys
    \/ ParseStatus
    \/ HandleLine
    \/ ParseDone
    \/ VerifyNoSigFile

ParseSpec == Init /\ [][ParseNext]_vars

(***************************************************************************)
(* The keyring.  gen_key, export_keys, import_keys, delete_keys and        *)
(* list_keys as whole calls against the keyrings the child keeps: each     *)
(* call assembles its arguments, the child acts on the keyrings as the     *)
(* arguments say, and the call builds what it returns from the child's     *)
(* output.  A byte is <<"hi", c>> when its top bit is set and <<"lo", c>>  *)
(* when it is ASCII; a text is a sequence of characters.                   *)
(***************************************************************************)
Hi(c) == <<"hi", c>>
Lo(c) == <<"lo", c>>
IsAscii(b) == b[1] = "lo"

\* A key as the child writes it without armor: every packet starts with a
\* byte whose top bit is set.
Packet(kind, f) == <<Hi(kind), Hi(f)>>

\* ASCII armor: a header line and the payload in a text-safe alphabet.
ArmorHeader == Lo("-")
Armor(bs) == <<ArmorHeader>> \o [i \in DOMAIN bs |-> Lo(bs[i][2])]
Dearmor(bs) == [i \in 1..(Len(bs) - 1) |-> Hi(bs[i + 1][2])]

\* bytes.decode(encoding, errors) and its inverse in _make_binary_stream.
DecodeError == <<"UnicodeDecodeError">>
Decode(bs) ==
    IF \A i \in DOMAIN bs : IsAscii(bs[i])
    THEN [i \in DOMAIN bs |-> bs[i][2]]
    ELSE DecodeError
Encode(text) == [i \in DOMAIN text |-> Lo(text[i])]

\* The key the child finds in the bytes it is given to import: <<kind,
\* fingerprint>>, or <<>> when they hold no key.
IsPacket(bs) ==
    /\ Len(bs) = 2
    /\ bs[1] \in {Hi("pub"), Hi("sec")}
    /\ bs[2] \in {Hi(f) : f \in Ids}
GpgReadKey(bs) ==
    LET raw == IF bs # <<>> /\ bs[1] = ArmorHeader THEN Dearmor(bs) ELSE bs
    IN IF IsPacket(raw) THEN <<raw[1][2], raw[2][2]>> ELSE <<>>

\* --export, --export-secret-keys: the key if the keyring holds it, armored
\* if --armor is among the arguments; nothing otherwise.
GpgExport(a, pub, sec) ==
    LET cmd == a[Len(a)]
        secret == cmd[2] = "-secret-keys"
        f == cmd[4]
        pkt == IF (secret /\ f \in sec) \/ (~secret /\ f \in pub)
               THEN Packet(IF secret THEN "sec" ELSE "pub", f)
               ELSE <<>>
    IN IF pkt # <<>> /\ \E i \in DOMAIN a : a[i] = Lit("--armor")
       THEN Armor(pkt) ELSE pkt

\* --delete-keys, --delete-secret-key, --delete-secret-and-public-key: the
\* keyrings afterwards and the code of the DELETE_PROBLEM line, "0" if none.
GpgDelete(a, pub, sec) ==
    LET cmd == a[Len(a)]
        which == cmd[2]
        f == cmd[4]
    IN CASE which = "keys" ->
              IF f \in sec THEN [pub |-> pub, sec |-> sec, problem |-> "2"]
              ELSE IF f \in pub THEN [pub |-> pub \ {f}, sec |-> sec, problem |-> "0"]
              ELSE [pub |-> pub, sec |-> sec, problem |-> "1"]
         [] which = "secret-key" ->
              IF f \in sec THEN [pub |-> pub, sec |-> sec \ {f}, problem |-> "0"]
              ELSE [pub |-> pub, sec |-> sec, problem |-> "1"]
         [] which = "secret-and-public-key" ->
              IF f \in pub THEN [pub |-> pub \ {f}, sec |-> sec \ {f}, problem |-> "0"]
              ELSE [pub |-> pub, sec |-> sec, problem |-> "1"]

\* The DeleteResult: 'ok' unless the child named a problem.
NewDeleteResult == [status |-> "ok"]
DeleteHandle(r, L) ==
    IF Len(L) >= 2 /\ L[1] = "DELETE_PROBLEM"
    THEN [r EXCEPT !.status = IF L[2] = "2" THEN "Must delete secret key first"
                              ELSE "No such key"]
    ELSE r

\* list_keys
ListKeysArgs(secret) ==
    LET which == IF secret THEN "secret-keys" ELSE "public-keys"
    IN <<<<"--list-", which,
           " --fixed-list-mode --fingerprint --with-colons --list-options no-show-photos">>>>

\* A keyring in the order the child lists it.
RECURSIVE RingSeq(_)
RingSeq(ring) ==
    IF ring = {} THEN <<>>
    ELSE LET f == CHOOSE x \in ring : TRUE IN <<f>> \o RingSeq(ring \ {f})

RECURSIVE KeyListing(_, _)
KeyListing(kw, fs) ==
    IF fs = <<>> THEN <<>>
    ELSE <<<<kw, Head(fs)>>, <<"fpr", Head(fs)>>, <<"uid", Head(fs)>>,
           <<"sub", Head(fs)>>>> \o KeyListing(kw, Tail(fs))

\* --list-public-keys, --list-secret-keys with colons.
GpgList(a, pub, sec) ==
    IF a[1][2] = "secret-keys"
    THEN KeyListing("sec", RingSeq(sec))
    ELSE <<<<"tru", "1">>>> \o KeyListing("pub", RingSeq(pub))

\* What list_keys(secret) returns on the keyrings as they are.
ListKeysResult(secret) ==
    ParseFrom("list", NewListResult,
              ListKeysLoop(GpgList(ListKeysArgs(secret), pubring, secring), <<>>))

\* A fingerprint as the child prints it: n hexadecimal characters.
Hex(f, n) == [i \in 1..n |-> f]
V4Hex(f) == Hex(f, 40)
NoExport == [keyid |-> "none", data |-> <<>>, present |-> FALSE]
NoBatch == [pubring |-> <<"none">>, secring |-> <<"none">>]

\* A call can start when no other is under way.
Ready == pc \in {"idle", "returned", "raised"}

Returned(o, a) ==
    /\ op' = o
    /\ pc' = "returned"
    /\ args' = a
    /\ exc' = "none"

\* import_keys(key_data)
ImportKeys ==
    /\ Ready
    /\ \E kd \in {pubkey1, seckey1} \ {NoExport} :
         LET key == GpgReadKey(Encode(kd.data))
             kind == key[1]
             f == key[2]
             new == IF key = <<>> THEN FALSE
                    ELSE IF kind = "sec" THEN f \notin secring ELSE f \notin pubring
             n(b) == IF b THEN 1 ELSE 0
             lines == IF key = <<>>
                      THEN <<<<"NODATA", "1">>,
                             <<"IMPORT_RES", 0, 0, 0, 0, 0, 0, 0, 0, 0, 0>>>>
                      ELSE <<<<"IMPORT_OK", f>>,
                             <<"IMPORT_RES", 1, 0,
                               n(new /\ kind = "pub"), 0, n(~new /\ kind = "pub"),
                               n(kind = "sec"), n(new /\ kind = "sec"),
                               n(~new /\ kind = "sec"), 0, 0>>>>
         IN /\ key_data' = kd.data
            /\ pubring' = IF key = <<>> THEN pubring ELSE pubring \cup {f}
            /\ secring' = IF key # <<>> /\ kind = "sec" THEN secring \cup {f}
                          ELSE secring
            /\ childLines' = lines
            /\ parsed' = Parse("import", lines)
    /\ Returned("import_keys", <<Lit("--import")>>)
    /\ feed' = <<>>
    /\ UNCHANGED <<engineVars, inserted, sanitized, ppChan, env, recv_keyids, pass,
                   sentPass>>
    /\ UNCHANGED <<pubkey1, seckey1, tempVars>>

\* export_keys(keyids, secret)
ExportKeys ==
    /\ Ready
    /\ \E f \in Ids, secret \in BOOLEAN :
         LET a == ExportKeysArgs(Lit(f), secret, FALSE)
             text == Decode(GpgExport(a, pubring, secring))
             kept == [keyid |-> f, data |-> text,
                      present |-> IF secret THEN f \in secring ELSE f \in pubring]
         IN /\ op' = "export_keys"
            /\ args' = a
            /\ IF text = DecodeError
               THEN /\ pc' = "raised"
                    /\ exc' = "UnicodeDecodeError"
                    /\ UNCHANGED <<pubkey1, seckey1>>
               ELSE /\ pc' = "returned"
                    /\ exc' = "none"
                    /\ IF secret
                       THEN seckey1' = kept /\ UNCHANGED pubkey1
                       ELSE pubkey1' = kept /\ UNCHANGED seckey1
    /\ UNCHANGED <<engineVars, inserted, sanitized, ppChan, env, recv_keyids, pass,
                   sentPass>>
    /\ UNCHANGED <<parseVars, pubring, secring, key_data, tempVars>>

\* delete_keys(fingerprints, secret, subkeys)
DeleteKeys ==
    /\ Ready
    /\ \E f \in Ids, secret \in BOOLEAN, subkeys \in BOOLEAN :
         LET a == DeleteKeysArgs(Lit(f), secret, subkeys)
             after == GpgDelete(a, pubring, secring)
             lines == IF after.problem = "0" THEN <<>>
                      ELSE <<<<"DELETE_PROBLEM", after.problem>>>>
         IN /\ Returned("delete_keys", a)
            /\ pubring' = after.pub
            /\ secring' = after.sec
            /\ childLines' = lines
            /\ parsed' = IF lines = <<>> THEN NewDeleteResult
                         ELSE DeleteHandle(NewDeleteResult, lines[1])
    /\ feed' = <<>>
    /\ UNCHANGED <<engineVars, inserted, sanitized, ppChan, env, recv_keyids, pass,
                   sentPass>>
    /\ UNCHANGED <<pubkey1, seckey1, key_data, tempVars>>

\* list_keys(secret)
ListKeys ==
    /\ Ready
    /\ \E secret \in BOOLEAN :
         /\ Returned("list_keys", ListKeysArgs(secret))
         /\ childLines' = GpgList(ListKeysArgs(secret), pubring, secring)
         /\ parsed' = ListKeysResult(secret)
    /\ feed' = <<>>
    /\ UNCHANGED <<engineVars, inserted, sanitized, ppChan, env, recv_keyids, pass,
                   sentPass>>
    /\ UNCHANGED ringVars

\* gen_key_input(separate_keyring): the batch names the keyrings the key is
\* to be written to, or none.
RingNames == {"a_1", "a_2"}
NoRing == <<"None">>
KeyDir == "generated-keys/"
PythonNone == <<"N", "o", "n", "e">>

\* The keyword arguments of gen_key_input that bear on the key and subkey
\* lines, in the order given; a value is absent, blank or a word.
KwargNames == <<"key_type", "key_usage", "subkey_type", "subkey_usage">>
Absent == "absent"
Kwargs ==
    [key_type : {Absent, "default", "RSA"}, key_usage : {Absent, "", "sign"},
     subkey_type : {Absent, "RSA"}, subkey_usage : {Absent, " ", "encrypt"}]
NoKwargs == [k \in {KwargNames[i] : i \in DOMAIN KwargNames} |-> Absent]

\* key.replace('_','-').title()
Title(k) ==
    CASE k = "key_type" -> "Key-Type"
      [] k = "key_usage" -> "Key-Usage"
      [] k = "subkey_type" -> "Subkey-Type"
      [] k = "subkey_usage" -> "Subkey-Usage"

\* not str(val).strip()
Blank(val) == val \in {"", " "}

\* The loop over kwargs: what it puts into parms under Title(k).
Stored(kw, k) ==
    /\ kw[k] # Absent
    /\ Title(k) \notin {"Key-Usage", "Subkey-Usage"}
    /\ ~Blank(kw[k])

\* parms after the defaults and the loop, without Key-Type and Key-Length,
\* as lines in the order of insertion.
ParmLines(kw, testing) ==
    <<<<"Name-Real", "Autogenerated Key">>, <<"Expire-Date", "next year">>,
      <<"Name-Email", "uidemail">>>>
      \o (IF testing THEN <<<<"Name-Comment", "insecure!">>>> ELSE <<>>)
      \o SelectSeq([i \in DOMAIN KwargNames |->
                      <<Title(KwargNames[i]), kw[KwargNames[i]]>>],
                   LAMBDA L : \E i \in DOMAIN KwargNames :
                                /\ L[1] = Title(KwargNames[i])
                                /\ Stored(kw, KwargNames[i])
                                /\ L[1] \notin {"Key-Type", "Subkey-Type"})

\* The text gen_key_input returns, by lines; ring is the name of the
\* separate keyrings, if any.
GenKeyInputOut(kw, testing, separate_keyring, ring) ==
    LET keyType == IF Stored(kw, "key_type") THEN kw["key_type"] ELSE "default"
        default_type == keyType = "default"
        parms == SelectSeq(ParmLines(kw, testing),
                           LAMBDA L : ~(default_type
                                        /\ L[1] \in {"Key-Usage", "Subkey-Usage"}))
    IN <<<<"Key-Type", keyType>>, <<"Key-Length", "4096">>>>
         \o (IF Stored(kw, "subkey_type")
             THEN <<<<"Subkey-Type", kw["subkey_type"]>>>>
             ELSE IF default_type THEN <<<<"Subkey-Type", "default">>>> ELSE <<>>)
         \o parms
         \o (IF separate_keyring
             THEN <<<<"%pubring", ring, ".pubring">>, <<"%secring", ring, ".secring">>>>
             ELSE <<>>)
         \o (IF testing THEN <<<<"%no-protection">>, <<"%transient-key">>>> ELSE <<>>)
         \o <<<<"%commit">>>>

GenKeyInput(separate_keyring, testing, kw) ==
    /\ Ready
    /\ op' = "gen_key_input"
    /\ pc' = "returned"
    /\ exc' = "none"
    /\ kwargs' = kw
    /\ old_input' = key_input
    /\ \E ring \in IF separate_keyring THEN RingNames ELSE {"none"} :
         /\ out' = GenKeyInputOut(kw, testing, separate_keyring, ring)
         /\ IF separate_keyring
            THEN /\ temp_keyring' = <<ring, ".pubring">>
                 /\ temp_secring' = <<ring, ".secring">>
                 /\ key_input' = [pubring |-> <<ring, ".pubring">>,
                                  secring |-> <<ring, ".secring">>]
            ELSE /\ key_input' = [pubring |-> NoRing, secring |-> NoRing]
                 /\ UNCHANGED <<temp_keyring, temp_secring>>
    /\ UNCHANGED <<engineVars, argVars, parseVars, pass, sentPass, keyVars, files,
                   input>>

CallGenKeyInput ==
    \E separate_keyring \in BOOLEAN : GenKeyInput(separate_keyring, FALSE, NoKwargs)
DefaultGenKeyInput == GenKeyInput(FALSE, FALSE, NoKwargs)
GenKeyInputWith ==
    \E separate_keyring \in BOOLEAN, testing \in BOOLEAN, kw \in Kwargs :
      GenKeyInput(separate_keyring, testing, kw)

\* os.rename of a temporary keyring to <generated-keys dir>/<fpr><suffix>,
\* if the keyring is set and is a file; within the home directory the rename
\* succeeds.
RenameRing(temp, fpr, suffix, fs) ==
    IF temp # NoRing /\ temp \in fs
    THEN [temp |-> NoRing, files |-> (fs \ {temp}) \cup {<<KeyDir, fpr, suffix>>}]
    ELSE [temp |-> temp, files |-> fs]

\* gen_key(input), with a batch the caller got from gen_key_input, the last
\* or the one before: the child creates a key with a v4 fingerprint in the
\* keyrings the batch names, or in the default ones, or fails.  fpr is
\* str(key.fingerprint), 'None' when no key was created.
GenKey ==
    /\ Ready
    /\ \E inp \in {key_input, old_input} \ {NoBatch}, created \in BOOLEAN, f \in Ids :
         LET separate == inp.pubring # NoRing
             lines == IF created THEN <<<<"KEY_CREATED", V4Hex(f)>>>>
                      ELSE <<<<"KEY_NOT_CREATED">>>>
             key == Parse("generate", lines)
             made == IF created /\ separate
                        THEN files \cup {inp.pubring, inp.secring}
                        ELSE files
             fpr == IF created THEN key.fingerprint ELSE PythonNone
             pubDone == RenameRing(temp_keyring, fpr, ".pubring", made)
             secDone == RenameRing(temp_secring, fpr, ".secring", pubDone.files)
         IN /\ created => f \notin pubring \cup secring
            /\ input' = inp
            /\ childLines' = lines
            /\ parsed' = key
            /\ pubring' = IF created /\ ~separate THEN pubring \cup {f} ELSE pubring
            /\ secring' = IF created /\ ~separate THEN secring \cup {f} ELSE secring
            /\ IF Len(fpr) = 20
               THEN /\ temp_keyring' = pubDone.temp
                    /\ temp_secring' = secDone.temp
                    /\ files' = secDone.files
               ELSE /\ files' = made
                    /\ UNCHANGED <<temp_keyring, temp_secring>>
    /\ Returned("gen_key", <<Lit("--gen-key --batch")>>)
    /\ feed' = <<>>
    /\ UNCHANGED <<engineVars, inserted, sanitized, ppChan, env, recv_keyids, pass,
                   sentPass>>
    /\ UNCHANGED <<pubkey1, seckey1, key_data, key_input, old_input, kwargs, out>>

KeyringNext ==
    \/ DefaultGenKeyInput
    \/ GenKey
    \/ ExportKeys
    \/ ImportKeys
    \/ DeleteKeys
    \/ ListKeys

KeyringSpec == Init /\ [][KeyringNext]_vars

GenKeyNext ==
    \/ CallGenKeyInput
    \/ GenKey
    \/ ListKeys

GenKeySpec == Init /\ [][GenKeyNext]_vars

\* gen_key_input with every combination of its arguments.
BatchNext ==
    \/ GenKeyInputWith

BatchSpec == Init /\ [][BatchNext]_vars

(***************************************************************************)
(* The claims.                                                             *)
(***************************************************************************)
IsPrefix(a, b) == Len(a) <= Len(b) /\ SubSeq(b, 1, Len(a)) = a
Over == pc \in {"returned", "raised"}
CollectorReturned == pc \in {"collected", "returned", "raised"}
IsValidLine(line) == line # EmptyLine /\ Keyword(line) \in valid_keywords
HasSecret(w) == \E i \in DOMAIN w : w[i] = "S"

\* C1 as stated: once output collection has returned, no step changes the
\* Result, in list_keys as in every other operation.
C1_NeverMutatedAfterCollect ==
    [][CollectorReturned => result' = result]_vars

\* C1 amended: once output collection has returned, the only step that
\* changes the Result is list_keys handing the collected lines to the
\* key-record handlers before it returns; it changes nothing else in the
\* Result, and nothing changes the Result after the return.
C1_OnlyListKeysMutatesAfterCollect ==
    [][CollectorReturned =>
         \/ result' = result
         \/ /\ op = "list_keys" /\ pc = "collected"
            /\ [result' EXCEPT !.calls = result.calls] = result]_vars

C1_Witness ==
    /\ pc = "returned" /\ op \notin {"list_keys", "none"}
    /\ result.phase = "finalized"
    /\ result.data # <<>> /\ result.lines # <<>>

\* C2: the Result of an Invocation is finalized exactly once, when the
\* collector has seen the child exit, and never by a status line: a Result
\* is final only with its child reaped, and a call that launched a child
\* ends with its Result finalized once.
C2_FinalizedExactlyOnce ==
    /\ nFinal <= 1
    /\ (result.phase = "finalized") = (nFinal = 1)
    /\ nFinal = 1 => child = "reaped"
    /\ (Over /\ child # "none") => nFinal = 1

\* C3: when control is back with the caller, by return or by exception, the
\* descriptors of the Invocation are closed and the child is reaped.
C3_ChannelsReleased ==
    Over => (fds = {} /\ child \in {"none", "reaped"})

\* C4: under fair scheduling of pump, child and collector, the echo
\* Invocation on an input larger than the pipes, once started, completes: the
\* call has returned, the pump has written everything and ended, the child is
\* reaped, both streams are drained and every token the child read has come
\* back.
C4_EchoCompletes ==
    (pc = "collecting") ~>
      (/\ pc = "returned"
       /\ pump = "done"
       /\ child = "reaped"
       /\ outBuf = <<>> /\ statBuf = <<>>
       /\ pumpLeft = 0
       /\ Len(result.data) = Len(childRead))

C4_Witness ==
    /\ pc = "returned" /\ op = "verify_file"
    /\ Len(childRead) > 2 * PipeCap + 1
    /\ Len(result.data) = Len(childRead)
    /\ pumpLeft = 0

\* C5: when the child has exited before the pump wrote all of its input, no
\* exception reaches the caller, the pump can end, the call is not stuck, and
\* what it returns is the Result, carrying the child's exit code and the
\* status lines the child emitted.
EarlyExit == child \in {"exited", "reaped"} /\ pumpLeft > 0

C8_InsertedIsSanitized ==
    pc = "assembled" =>
      \A i \in DOMAIN inserted : inserted[i] = FixUnsafe(inserted[i])

\* C9: a call of an operation that got past setup returns a Result (or, from
\* export_keys, the Result's data): it raises nothing but a setup error and
\* it does not return None.
C9_AlwaysReturnsResult ==
    op # "__init__" =>
      /\ pc = "raised" => exc \in {"ValueError", "UnsafeInputError"}
      /\ pc = "returned" => retval \in {"Result", "Text"}

\* C10: a status line with an unrecognized keyword changes no field of the
\* Result and raises nothing; in list_keys every handler call is for a line
\* whose first field is pub, uid, sec, fpr or sub, in the order of those
\* lines.
C10_UnknownKeywordIgnored ==
    [][/\ (dispatched' # dispatched
           /\ dispatched'[Len(dispatched')] \notin KnownStatus)
          => (result' = result /\ exc' = exc /\ pc' = pc)
       /\ (op = "list_keys" /\ pc = "collected" /\ pc' # pc)
          => /\ IsPrefix(result'.calls, SelectSeq(result.data, IsValidLine))
             /\ pc' = "returned" /\ exc' = exc]_vars

C10_Witness ==
    /\ pc = "returned" /\ op = "list_keys"
    /\ result.data = <<<<"tru">>, <<"pub">>>>
    /\ result.calls = <<<<"pub">>>>
    /\ dispatched = <<"FUTURE_KEYWORD_XYZ">>
    /\ result.lines = <<>>

\* C11: a malformed or empty line is skipped and the lines after it are
\* still dispatched: the Result built from a child's lines is the Result
\* built from its well-formed lines alone, in list_keys too.
WellFormedLines(v, ls) == SelectSeq(ls, LAMBDA L : WellFormed(v, L))

C11_MalformedLineSkipped ==
    pc = "parsed" =>
      parsed = Parse(VariantOf(op), WellFormedLines(VariantOf(op), childLines))

\* C12: in a listing of pub, sec, sub, uid and fpr lines, the key records
\* are, in order, those the pub and sec lines opened, and the fingerprint of
\* every record is the one of the last fpr line whose nearest preceding pub,
\* sec or sub line opened that record, or none: an fpr line sets no other
\* record's fingerprint.
Handled == SubSeq(ListKeysLoop(childLines, <<>>), 1,
                  Len(ListKeysLoop(childLines, <<>>)) - Len(feed))
Max(S) == CHOOSE x \in S : \A y \in S : y <= x
OpenerOf(ls, i) == Max({0} \cup {j \in 1..(i - 1) : ls[j][1] \in OpenerWords})
KeyNo(ls, j) == Cardinality({m \in 1..j : ls[m][1] \in {"pub", "sec"}})
KeyAt(ls, j) == Max({0} \cup {m \in 1..j : ls[m][1] \in {"pub", "sec"}})
SubNo(ls, j) == Cardinality({m \in (KeyAt(ls, j) + 1)..j : ls[m][1] = "sub"})
FprLinesOf(ls, j) == {i \in DOMAIN ls : ls[i][1] = "fpr" /\ OpenerOf(ls, i) = j}
FprFor(ls, j) == IF FprLinesOf(ls, j) = {} THEN NoFpr ELSE ls[Max(FprLinesOf(ls, j))][2]
IsKeyLine(L) == L[1] \in {"pub", "sec"}

C12_FprSetsNearestRecord ==
    (/\ op = "list_keys" /\ pc \in {"parsing", "parsed"}
     /\ \A i \in DOMAIN childLines : ListWellFormed(childLines[i]))
    => LET ls == Handled
           ks == SelectSeq(ls, IsKeyLine)
       IN /\ Len(parsed.keys) = Len(ks)
          /\ \A k \in DOMAIN ks :
               parsed.keys[k].type = ks[k][1] /\ parsed.keys[k].id = ks[k][2]
          /\ \A j \in DOMAIN ls :
               (ls[j][1] \in OpenerWords /\ KeyNo(ls, j) > 0) =>
                 IF IsKeyLine(ls[j])
                 THEN parsed.keys[KeyNo(ls, j)].fpr = FprFor(ls, j)
                 ELSE parsed.keys[KeyNo(ls, j)].subs[SubNo(ls, j)].fpr = FprFor(ls, j)

C12_Witness ==
    /\ op = "list_keys" /\ pc = "parsed"
    /\ childLines = <<<<"pub", "1">>, <<"sub", "2">>, <<"fpr", "2">>>>
    /\ parsed.keys[1].fpr = NoFpr
    /\ parsed.keys[1].subs[1].fpr = "2"

\* C13: after any sequence of status lines, a VerifyResult is successful
\* only if a GOODSIG-class line was seen with no ERROR or BADSIG line after
\* it; its status is that of the last signature line, if any; ERRSIG then
\* NODATA gives failure with no signer fingerprint.
FedLines == SubSeq(childLines, 1, Len(childLines) - Len(feed))
SigLinesOf(ls) == {i \in DOMAIN ls : ls[i][1] \in SigWords}

C13_VerifyLastSignatureWins ==
    (op = "verify_file" /\ pc \in {"parsing", "parsed"}) =>
      LET ls == WellFormedLines("verify", FedLines)
      IN /\ Success("verify", parsed) =>
              \E i \in DOMAIN ls :
                /\ ls[i][1] \in GoodSigClass
                /\ \A j \in (i + 1)..Len(ls) : ls[j][1] \notin {"ERROR", "BADSIG"}
         /\ parsed.status = IF SigLinesOf(ls) = {} THEN "none"
                            ELSE ls[Max(SigLinesOf(ls))][1]
         /\ (SigLinesOf(ls) # {} /\ ls[Max(SigLinesOf(ls))][1] \notin GoodSigClass)
              => ~Success("verify", parsed)
         /\ (\E id \in Ids : FedLines = <<<<"ERRSIG", id>>, <<"NODATA", "1">>>>)
              => ~Success("verify", parsed) /\ parsed.fingerprint = NoFpr

C13_Witness ==
    /\ op = "verify_file" /\ pc = "parsed"
    /\ childLines = <<<<"BADSIG", "1">>, <<"ERRSIG", "1">>, <<"GOODSIG", "2">>>>
    /\ Success("verify", parsed)
    /\ parsed.status = "GOODSIG" /\ parsed.fingerprint = "2"

\* C14: for every sequence of status lines fed to a CryptResult during
\* decryption, the result is successful only if DECRYPTION_OKAY was received
\* and DECRYPTION_FAILED was not; a wrong passphrase ends with status
\* 'decryption failed' or 'bad passphrase', the right one with 'decryption ok'.
Received(kw) == \E i \in DOMAIN FedLines : FedLines[i] = <<kw>>

C14_DecryptSuccessOnlyIfOkay ==
    (op = "decrypt_file" /\ pc \in {"parsing", "parsed"}) =>
      /\ Success("crypt", parsed) =>
           Received("DECRYPTION_OKAY") /\ ~Received("DECRYPTION_FAILED")
      /\ FedLines = <<<<"BAD_PASSPHRASE">>>> =>
           ~Success("crypt", parsed) /\ parsed.status = "bad passphrase"
      /\ FedLines \in {<<<<"NEED_PASSPHRASE">>, <<"BAD_PASSPHRASE">>>>,
                       <<<<"NEED_PASSPHRASE">>, <<"BAD_PASSPHRASE">>,
                         <<"DECRYPTION_FAILED">>>>} =>
           /\ ~Success("crypt", parsed)
           /\ parsed.status \in {"decryption failed", "bad passphrase"}
      /\ FedLines = <<<<"NEED_PASSPHRASE">>, <<"GOOD_PASSPHRASE">>,
                      <<"DECRYPTION_OKAY">>>> =>
           Success("crypt", parsed) /\ parsed.status = "decryption ok"

C14_Witness ==
    /\ op = "decrypt_file" /\ pc = "parsed"
    /\ childLines = <<<<"DECRYPTION_OKAY">>, <<"GOOD_PASSPHRASE">>,
                      <<"DECRYPTION_FAILED">>>>
    /\ parsed.okay /\ parsed.failed /\ ~Success("crypt", parsed)

\* C15: an IMPORT_RES line assigns its ten numeric fields to the counters
\* of the ImportResult by position, in the order count, no-user-id, imported,
\* imported-rsa, unchanged, secret-read, secret-imported, secret-unchanged,
\* not-imported, skipped-new; IMPORT_RES 5 0 3 0 2 0 0 0 0 0 gives
\* imported 3, unchanged 2 and count 5.
ImportResLines ==
    {i \in DOMAIN FedLines :
       Len(FedLines[i]) = 11 /\ FedLines[i][1] = "IMPORT_RES"}

C15_ImportResPositional ==
    (op = "import_keys" /\ pc \in {"parsing", "parsed"} /\ ImportResLines # {}) =>
      LET L == FedLines[Max(ImportResLines)]
          n == parsed.counts
      IN /\ n["count"] = L[2]
         /\ n["no_user_id"] = L[3]
         /\ n["imported"] = L[4]
         /\ n["imported_rsa"] = L[5]
         /\ n["unchanged"] = L[6]
         /\ n["sec_read"] = L[7]
         /\ n["sec_imported"] = L[8]
         /\ n["sec_dups"] = L[9]
         /\ n["not_imported"] = L[10]
         /\ n["skipped_new"] = L[11]
         /\ L = <<"IMPORT_RES", 5, 0, 3, 0, 2, 0, 0, 0, 0, 0>> =>
              n["imported"] = 3 /\ n["unchanged"] = 2 /\ n["count"] = 5

C15_Witness ==
    /\ op = "import_keys" /\ pc = "parsed"
    /\ childLines = <<<<"IMPORT_OK", "1">>,
                      <<"IMPORT_RES", 5, 0, 3, 0, 2, 0, 0, 0, 0, 0>>>>
    /\ parsed.counts["imported"] = 3
    /\ parsed.counts["unchanged"] = 2
    /\ parsed.counts["count"] = 5

Listed(secret) == Fingerprints(ListKeysResult(secret))
Importing(kept) ==
    op' = "import_keys" /\ kept.present /\ key_data' = kept.data

C17_KeyringRoundTrip ==
    /\ [](\A secret \in BOOLEAN :
            Listed(secret) = IF secret THEN secring ELSE pubring)
    /\ []((op = "list_keys" /\ pc = "returned") =>
            \E secret \in BOOLEAN :
              args = ListKeysArgs(secret) /\ Fingerprints(parsed) = Listed(secret))
    /\ [][/\ (Importing(pubkey1) /\ pubkey1.keyid \notin pubring) =>
               pubkey1.keyid \in pubring' /\ secring' = secring
          /\ (Importing(seckey1) /\ seckey1.keyid \notin secring) =>
               seckey1.keyid \in secring' /\ seckey1.keyid \in pubring'
         ]_vars

\* F was generated and exported, deleted, and its secret key imported into
\* the keyring that no longer held it: both listings show F.
C17_Witness ==
    /\ op = "import_keys" /\ pc = "returned"
    /\ seckey1.present /\ seckey1.keyid = "1"
    /\ key_data = seckey1.data
    /\ parsed.counts["sec_imported"] = 1
    /\ "1" \in Listed(TRUE) /\ "1" \in Listed(FALSE)

\* C18: while the secret key of F is present, delete_keys(F) answers 'Must
\* delete secret key first' and leaves both keyrings as they are;
\* delete_keys(F, secret=True) answers 'ok' and removes only the secret key;
\* delete_keys(F) then answers 'ok', and list_keys no longer lists F.
Deleting(f, secret) ==
    op' = "delete_keys" /\ args' = DeleteKeysArgs(Lit(f), secret, FALSE)

C18_DeleteSecretKeyFirst ==
    /\ [](\A f \in Ids : f \notin pubring => f \notin Listed(FALSE))
    /\ [][\A f \in Ids :
            /\ (Deleting(f, FALSE) /\ f \in secring) =>
                 /\ parsed'.status = "Must delete secret key first"
                 /\ pubring' = pubring /\ secring' = secring
            /\ (Deleting(f, TRUE) /\ f \in secring) =>
                 /\ parsed'.status = "ok"
                 /\ secring' = secring \ {f} /\ pubring' = pubring
            /\ (Deleting(f, FALSE) /\ f \in pubring \ secring) =>
                 /\ parsed'.status = "ok"
                 /\ f \notin pubring' /\ secring' = secring
         ]_vars

\* The second key was generated with the first, refused, and deleted from
\* the secret and then from the public keyring; the first is still there.
C18_Witness ==
    /\ op = "delete_keys" /\ pc = "returned"
    /\ args = DeleteKeysArgs(Lit("2"), FALSE, FALSE)
    /\ parsed.status = "ok"
    /\ pubring = {"1"} /\ secring = {"1"}
    /\ Listed(FALSE) = {"1"}

\* C19: constructing the engine runs one probe of the binary and collects
\* its output; construction raises RuntimeError if and only if the probe
\* exited with a non-zero code, and raises nothing else.
C19_ConstructionProbesOnce ==
    (op = "__init__" /\ Over) =>
      /\ child = "reaped"
      /\ nFinal = 1
      /\ (pc = "raised") <=> (rc # 0)
      /\ pc = "raised" => exc = "RuntimeError"

\* C20: after gen_key_input(separate_keyring=True), a gen_key that succeeds
\* with a v4 fingerprint F of 40 hexadecimal characters has renamed the
\* temporary keyrings of the batch to <generated-keys dir>/F.pubring and
\* F.secring and reset temp_keyring and temp_secring to None; a gen_key that
\* fails renames no file.
C20_SeparateKeyringRenamed ==
    [][(/\ op' = "gen_key"
        /\ input'.pubring # NoRing
        /\ temp_keyring = input'.pubring
        /\ temp_secring = input'.secring) =>
         IF childLines'[1][1] = "KEY_CREATED"
         THEN Len(parsed'.fingerprint) = 40 =>
                /\ <<KeyDir, parsed'.fingerprint, ".pubring">> \in files'
                /\ <<KeyDir, parsed'.fingerprint, ".secring">> \in files'
                /\ input'.pubring \notin files'
                /\ input'.secring \notin files'
                /\ temp_keyring' = NoRing
                /\ temp_secring' = NoRing
         ELSE files' = files
      ]_vars

\* C21: gen_key_input emits the key usages asked for: with a key_type
\* other than 'default', a key_usage or subkey_usage that is not blank
\* appears as 'Key-Usage: <value>' or 'Subkey-Usage: <value>'; with key_type
\* 'default' neither line appears.  Key-Type is the first line, Key-Length
\* the second and %commit the last.
OutHas(L) == \E i \in DOMAIN out : out[i] = L
KeyTypeAsked == IF kwargs["key_type"] \in {Absent, "", " "} THEN "default"
                ELSE kwargs["key_type"]

C21_KeyUsagesEmitted ==
    (op = "gen_key_input" /\ pc = "returned") =>
      /\ out[1][1] = "Key-Type"
      /\ out[2][1] = "Key-Length"
      /\ out[Len(out)] = <<"%commit">>
      /\ \A u \in {"key_usage", "subkey_usage"} :
           IF KeyTypeAsked # "default" /\ kwargs[u] \notin {Absent, "", " "}
           THEN OutHas(<<Title(u), kwargs[u]>>)
           ELSE \A i \in DOMAIN out : out[i][1] # Title(u)

\* C22: list_sigs with more than _batch_limit keyids raises ValueError
\* before any child is launched; with fewer it launches one child, collects
\* its output and returns the list Result.
C22_ListSigsBatchLimit ==
    (op = "list_sigs" /\ Over) =>
      \/ /\ pc = "raised" /\ exc = "ValueError"
         /\ child = "none" /\ fds = {}
      \/ /\ pc = "returned" /\ exc = "none"
         /\ retval = "Result"
         /\ child = "reaped" /\ fds = {}
         /\ nFinal = 1

\* C23: recv_keys(keyserver, k1, ..., kn) gives the child '--keyserver',
\* the keyserver, '--recv-keys' and then exactly n arguments, the i-th the
\* sanitized form of ki: no key id is split and no two are merged.
C23_RecvKeysOneArgumentPerKeyId ==
    (op = "recv_keys" /\ pc = "assembled") =>
      /\ Len(args) = 3 + Len(recv_keyids)
      /\ args[1] = Lit("--keyserver")
      /\ args[2] = inserted[1]
      /\ args[3] = Lit("--recv-keys")
      /\ \A i \in DOMAIN recv_keyids : args[3 + i] = FixUnsafe(recv_keyids[i])

\* C24: in _sign_file the child is told to expect a passphrase exactly when
\* one is then written to it, before the pump thread starts: what the child
\* reads first, when it expects a passphrase, is the passphrase and never a
\* byte of the message, for every passphrase including the empty string.
C24_SignPassphraseBeforeMessage ==
    (op = "sign" /\ pc \in {"collecting", "collected", "returned"}) =>
      LET stream == childRead \o stdinBuf
      IN /\ (sentPass /\ stream # <<>>) => stream[1] = "pp"
         /\ ~sentPass => \A i \in DOMAIN stream : stream[i] # "pp"
         /\ \A i \in DOMAIN stream : stream[i] = "pp" => i = 1


\* C25: every operation that starts a pump thread hands it to the collector,
\* so once the collector has finished (and so when the operation returns, and
\* when verify closes the stream it made, gnupg.py:263-266) the pump thread
\* has terminated; this for both branches of verify_file.
C25_PumpJoinedBeforeReturn ==
    (pc \in {"collected", "returned"} /\ pump # "none") => pump # "running"


\* The files a step moved into the generated-keys directory.
Renamed == {p \in files' \ files : p[1] = KeyDir}

\* C26: on one instance, in any interleaving of gen_key_input and gen_key,
\* each gen_key renames only the temporary keyrings its own batch names, a
\* gen_key with a batch that names none renames nothing, and the temporary
\* keyring fields a gen_key_input has set are not overwritten by another
\* gen_key_input while they are still set.
C26_TempKeyringsPerBatch ==
    [][/\ (op' = "gen_key" /\ Renamed # {}) =>
            /\ input'.pubring # NoRing
            /\ (files \ files') \subseteq {input'.pubring, input'.secring}
       /\ (op' = "gen_key" /\ input'.pubring = NoRing) => files' = files
       /\ (op' = "gen_key_input" /\ temp_keyring # NoRing) =>
            /\ temp_keyring' = temp_keyring
            /\ temp_secring' = temp_secring ]_vars

====
